---- MODULE Spec2Model ----
(***************************************************************************)
(* Model of pyfs/filesystem.py: the PyFS adapter (fuse.Operations) with    *)
(* its open-file table, its handle counter and the module registry kept    *)
(* by pyfs.mapping.  Strings are sequences of one-character strings so     *)
(* that strip, join and split are computed rather than assumed.            *)
(***************************************************************************)
EXTENDS Integers, Sequences, FiniteSets, TLC

VARIABLES next_fh, flags_for_open_files, modules, last, answer, threads

vars == <<next_fh, flags_for_open_files, modules, last, answer, threads>>

(* ------------------------------ bounds --------------------------------- *)

\* number of handle ids the counter may issue before open stops succeeding
MaxOpens == 2

(* --------------------------- program constants ------------------------- *)

O_RDONLY == 0
O_WRONLY == 1
O_RDWR == 2
O_TRUNC == 512
O_APPEND == 1024

EPERM == 1
ENOENT == 2
EBADFD == 77

S_IFDIR == 16384
S_IFREG == 32768
S_IFLNK == 40960

\* the permission bits 0444, 0555, 0666 and 0777
Mode0444 == 292
Mode0555 == 365
Mode0666 == 438
Mode0777 == 511

\* value of a call that returns nothing (Python None)
NoneValue == -1

\* the control file; its concrete spelling lives in pyfs.mapping
PATH_MODULES == "PATH_MODULES"

(* ------------------------------- strings ------------------------------- *)

s_builtin == <<"_", "_", "b", "u", "i", "l", "t", "i", "n", "_", "_">>
s_json == <<"j", "s", "o", "n">>
s_os == <<"o", "s">>
s_re == <<"r", "e">>
s_string == <<"s", "t", "r", "i", "n", "g">>
s_sys == <<"s", "y", "s">>

\* the names __init__ loads, in order
BootstrapNames == <<s_builtin, s_json, s_os, s_re, s_string, s_sys>>

\* characters str.strip() removes
Whitespace == {" ", "\t", "\n", "\r", "\f"}

RECURSIVE lstrip(_)
lstrip(s) ==
  IF s = <<>> THEN <<>>
  ELSE IF Head(s) \in Whitespace THEN lstrip(Tail(s))
  ELSE s

RECURSIVE rstrip(_)
rstrip(s) ==
  IF s = <<>> THEN <<>>
  ELSE IF s[Len(s)] \in Whitespace THEN rstrip(SubSeq(s, 1, Len(s) - 1))
  ELSE s

\* data.strip() without the leading whitespace removed
strip_trailing_only(s) == rstrip(s)

\* data.strip()
strip(s) == rstrip(lstrip(s))

\* "\n".join(names)
RECURSIVE join(_)
join(names) ==
  IF names = <<>> THEN <<>>
  ELSE IF Len(names) = 1 THEN names[1]
  ELSE names[1] \o <<"\n">> \o join(Tail(names))

\* content.split("\n")
RECURSIVE split_from(_, _, _)
split_from(s, i, cur) ==
  IF i > Len(s) THEN <<cur>>
  ELSE IF s[i] = "\n" THEN <<cur>> \o split_from(s, i + 1, <<>>)
  ELSE split_from(s, i + 1, Append(cur, s[i]))

split(s) == split_from(s, 1, <<>>)

Range(s) == {s[i] : i \in 1..Len(s)}

Count(x, s) == Cardinality({i \in 1..Len(s) : s[i] = x})

(* ----------------------- the module registry --------------------------- *)

\* pyfs.mapping.add_module: load, idempotent when the name is present
add_module(mods, name) ==
  IF name \in Range(mods) THEN mods ELSE Append(mods, name)

\* pyfs.mapping.reset_modules_list: clear to empty
reset_modules_list == <<>>

\* pyfs.mapping.get_content for the control file
get_content_modules(mods) == join(mods)

RECURSIVE add_all(_, _)
add_all(mods, names) ==
  IF names = <<>> THEN mods
  ELSE add_all(add_module(mods, Head(names)), Tail(names))

(* ------------------------------- inputs -------------------------------- *)

Paths == {PATH_MODULES, "/lib/os"}

FlagValues ==
  { O_RDONLY, O_WRONLY, O_RDWR,
    O_WRONLY + O_APPEND, O_WRONLY + O_TRUNC, O_RDWR + O_TRUNC }

DataValues ==
  { <<>>, <<" ", "\n">>, s_re, <<" ", "r", "e", "\n">>,
    <<"o", "s", "\n", "r", "e">> }

Offsets == {0, 5}

Lengths == {0, 7}

Handles == 0..MaxOpens

(* ------------------------------ the calls ------------------------------ *)

\* flags & bit, for a single-bit mask
HasFlag(flags, bit) == (flags \div bit) % 2 = 1

Call(op, path, flags, length, fh, data, offset, exc, code, ret) ==
  [op |-> op, path |-> path, flags |-> flags, length |-> length, fh |-> fh,
   data |-> data, offset |-> offset, exc |-> exc, code |-> code, ret |-> ret]

\* what the last call answered, when it was a query; none after any other call
NoAnswer == [op |-> "none"]

\* every worker thread is outside any call
NoThreads == [t \in {} |-> 0]

Init ==
  /\ next_fh = 0
  /\ flags_for_open_files = <<>>
  /\ modules = add_all(<<>>, BootstrapNames)
  /\ last = Call("init", "", 0, 0, NoneValue, <<>>, 0, "", 0, NoneValue)
  /\ answer = NoAnswer
  /\ threads = NoThreads

\* open: the control file refuses read-write access
open_rejects_control_without_trunc(flags) ==
  HasFlag(flags, O_RDWR) /\ ~HasFlag(flags, O_TRUNC)

open_rejects_control(flags) == HasFlag(flags, O_RDWR)

\* open: any other path refuses write intent
open_rejects_other_wronly_only(flags) == HasFlag(flags, O_WRONLY)

open_rejects_other(flags) == HasFlag(flags, O_WRONLY) \/ HasFlag(flags, O_RDWR)

\* open: the control file is reset when the truncate flag is set
open_never_resets(flags) == FALSE

open_resets(flags) == HasFlag(flags, O_TRUNC)

\* open handing out the lowest id that is not in the table
open_lowest_free_id(path, flags) ==
  IF \/ path = PATH_MODULES /\ open_rejects_control(flags)
     \/ path # PATH_MODULES /\ open_rejects_other(flags)
  THEN /\ last' = Call("open", path, flags, 0, NoneValue, <<>>, 0,
                       "FuseOSError", EPERM, NoneValue)
       /\ UNCHANGED <<next_fh, flags_for_open_files, modules>>
  ELSE LET fh == CHOOSE h \in 0..MaxOpens :
                   /\ h \notin DOMAIN flags_for_open_files
                   /\ \A g \in 0..(h - 1) : g \in DOMAIN flags_for_open_files
       IN /\ next_fh < MaxOpens
          /\ modules' = IF path = PATH_MODULES /\ open_resets(flags)
                        THEN reset_modules_list ELSE modules
          /\ next_fh' = next_fh + 1
          /\ flags_for_open_files' =
               [h \in DOMAIN flags_for_open_files \cup {fh} |->
                  IF h = fh THEN flags ELSE flags_for_open_files[h]]
          /\ last' = Call("open", path, flags, 0, NoneValue, <<>>, 0,
                          "", 0, fh)

open(path, flags) ==
  IF path = PATH_MODULES /\ open_rejects_control(flags)
  THEN /\ last' = Call("open", path, flags, 0, NoneValue, <<>>, 0,
                       "FuseOSError", EPERM, NoneValue)
       /\ UNCHANGED <<next_fh, flags_for_open_files, modules>>
  ELSE IF path # PATH_MODULES /\ open_rejects_other(flags)
  THEN /\ last' = Call("open", path, flags, 0, NoneValue, <<>>, 0,
                       "FuseOSError", EPERM, NoneValue)
       /\ UNCHANGED <<next_fh, flags_for_open_files, modules>>
  ELSE /\ next_fh < MaxOpens
       /\ modules' = IF path = PATH_MODULES /\ open_resets(flags)
                     THEN reset_modules_list ELSE modules
       /\ next_fh' = next_fh + 1
       /\ flags_for_open_files' =
            [h \in DOMAIN flags_for_open_files \cup {next_fh} |->
               IF h = next_fh THEN flags ELSE flags_for_open_files[h]]
       /\ last' = Call("open", path, flags, 0, NoneValue, <<>>, 0,
                       "", 0, next_fh)

Open == \E path \in Paths, flags \in FlagValues : open(path, flags)

\* truncate: which failure, if any ("" when the call goes through)
truncate_error_length_first(path, length) ==
  IF length # 0 THEN "IOError"
  ELSE IF path # PATH_MODULES THEN "FuseOSError"
  ELSE ""

truncate_error(path, length) ==
  IF path # PATH_MODULES THEN "FuseOSError"
  ELSE IF length # 0 THEN "IOError"
  ELSE ""

truncate(path, length) ==
  IF truncate_error(path, length) # ""
  THEN /\ last' = Call("truncate", path, 0, length, NoneValue, <<>>, 0,
                       truncate_error(path, length), EPERM, NoneValue)
       /\ UNCHANGED <<next_fh, flags_for_open_files, modules>>
  ELSE /\ modules' = reset_modules_list
       /\ last' = Call("truncate", path, 0, length, NoneValue, <<>>, 0,
                       "", 0, NoneValue)
       /\ UNCHANGED <<next_fh, flags_for_open_files>>

Truncate == \E path \in Paths, length \in Lengths : truncate(path, length)

\* release: the handle check
release_never_bad_handle(table, fh) == FALSE

release_bad_handle(table, fh) == fh \notin DOMAIN table

\* release: del self._flags_for_open_files[fh]
release_keeps_entry(table, fh) == table

\* release emptying the whole table
release_clears_table(table, fh) == [h \in {} |-> 0]

release_del(table, fh) == [h \in DOMAIN table \ {fh} |-> table[h]]

release(path, fh) ==
  IF release_bad_handle(flags_for_open_files, fh)
  THEN /\ last' = Call("release", path, 0, 0, fh, <<>>, 0,
                       "FuseOSError", EBADFD, NoneValue)
       /\ UNCHANGED <<next_fh, flags_for_open_files, modules>>
  ELSE /\ flags_for_open_files' = release_del(flags_for_open_files, fh)
       /\ last' = Call("release", path, 0, 0, fh, <<>>, 0, "", 0, fh)
       /\ UNCHANGED <<next_fh, modules>>

Release == \E path \in Paths, fh \in Handles : release(path, fh)

\* write: the handle check
write_bad_handle(table, fh) == fh \notin DOMAIN table

\* write: neither append mode nor offset zero
write_rejects_offset(flags, offset) ==
  ~HasFlag(flags, O_APPEND) /\ offset # 0

\* write: the name handed to add_module
write_name(data) == strip(data)

\* write: the return value
write_ret(data) == Len(data)

write(path, data, offset, fh) ==
  IF write_bad_handle(flags_for_open_files, fh)
  THEN /\ last' = Call("write", path, 0, 0, fh, data, offset,
                       "FuseOSError", EBADFD, NoneValue)
       /\ UNCHANGED <<next_fh, flags_for_open_files, modules>>
  ELSE IF write_rejects_offset(flags_for_open_files[fh], offset)
  THEN /\ last' = Call("write", path, 0, 0, fh, data, offset,
                       "FuseOSError", -EPERM, NoneValue)
       /\ UNCHANGED <<next_fh, flags_for_open_files, modules>>
  ELSE /\ modules' = IF write_name(data) # <<>>
                     THEN add_module(modules, write_name(data))
                     ELSE modules
       /\ last' = Call("write", path, 0, 0, fh, data, offset,
                       "", 0, write_ret(data))
       /\ UNCHANGED <<next_fh, flags_for_open_files>>

Write ==
  \E path \in Paths, data \in DataValues, offset \in Offsets, fh \in Handles :
    write(path, data, offset, fh)

(* ------------------------------ the resolver --------------------------- *)

\* the prefixes of the built-ins area and of the library area
PATH_BIN_PREFIX == <<"/", "b", "i", "n", "/">>
PATH_LIB_PREFIX == <<"/", "l", "i", "b", "/">>

\* a dot-prefixed name at the root
PATH_DOT_FILE == "PATH_DOT_PREFIX+name"

s_len == <<"l", "e", "n">>
s_abs == <<"a", "b", "s">>
s_import == <<"_", "_", "i", "m", "p", "o", "r", "t", "_", "_">>

\* names of the global scope, dir(__builtin__)
BuiltinNames == {s_len, s_abs, s_import}

CountChar(s, c) == Cardinality({i \in 1..Len(s) : s[i] = c})

RECURSIVE Repeat(_, _)
Repeat(s, n) == IF n <= 0 THEN <<>> ELSE s \o Repeat(s, n - 1)

\* "../" * (sourcepath.count("/") - 1), climbing one level too many
climb_one_too_many(sourcepath) ==
  Repeat(<<".", ".", "/">>, CountChar(sourcepath, "/"))

\* "../" * (sourcepath.count("/") - 1)
climb(sourcepath) == Repeat(<<".", ".", "/">>, CountChar(sourcepath, "/") - 1)

\* the target __init__ registers for the built-in called name
symlink_target(name) ==
  climb(PATH_BIN_PREFIX \o name)
    \o Tail(PATH_LIB_PREFIX) \o s_builtin \o <<"/">> \o name

\* pyfs.mapping.add_symlink, as __init__ calls it: link path -> target
symlinks ==
  [link \in {PATH_BIN_PREFIX \o name : name \in BuiltinNames} |->
     symlink_target(SubSeq(link, Len(PATH_BIN_PREFIX) + 1, Len(link)))]

\* the paths the queries are asked about
QueryPaths ==
  { "/", "/.", "/..", PATH_MODULES, PATH_DOT_FILE, "/bin/len", "/lib/os",
    "/lib/os/getcwd", "/lib/os/name", "/lib/os/odd", "/lib/nope" }

\* what the resolver makes of a path: "unresolvable" raises CannotResolve,
\* "none" is neither symlink nor directory nor file
ResolverKind(path) ==
  CASE path = "/" -> "dir"
    [] path = PATH_MODULES -> "control"
    [] path = PATH_DOT_FILE -> "control"
    [] path = "/bin/len" -> "symlink"
    [] path = "/lib/os" -> "dir"
    [] path = "/lib/os/getcwd" -> "callable"
    [] path = "/lib/os/name" -> "value"
    [] path = "/lib/os/odd" -> "none"
    [] OTHER -> "unresolvable"

is_symlink(path) == ResolverKind(path) = "symlink"
is_dir(path) == ResolverKind(path) = "dir"
is_file(path) == ResolverKind(path) \in {"control", "callable", "value"}
is_executable(path) == ResolverKind(path) = "callable"

\* pyfs.mapping.get_content
get_content(path, mods) ==
  CASE ResolverKind(path) = "control" -> get_content_modules(mods)
    [] ResolverKind(path) = "symlink" -> symlinks[PATH_BIN_PREFIX \o s_len]
    [] ResolverKind(path) = "callable" -> <<"d", "e", "f">>
    [] OTHER -> <<"'", "x", "'">>

\* pyfs.mapping.get_elements, for a directory
get_elements(path) ==
  IF path = "/" THEN <<"bin", "lib">> ELSE <<"getcwd", "name">>

(* ----------------------------- the queries ----------------------------- *)

Stat(path, exc, code, mode, nlink, size, consulted) ==
  [op |-> "getattr", path |-> path, exc |-> exc, code |-> code,
   st_mode |-> mode, st_nlink |-> nlink, st_size |-> size,
   consulted |-> consulted]

\* try_to_getattr: the first test, taking only "/" for the root
is_root_slash_only(path) == path = "/"

\* try_to_getattr: path == '/' or path == "/." or path == "/.."
is_root(path) == path = "/" \/ path = "/." \/ path = "/.."

\* try_to_getattr: path.startswith(PATH_DOT_PREFIX) and not "." in path
is_dot_file(path) == path = PATH_DOT_FILE

\* try_to_getattr: _get_file_mode
get_file_mode(path) ==
  IF path = PATH_MODULES THEN Mode0666
  ELSE IF is_executable(path) THEN Mode0555
  ELSE Mode0444

try_to_getattr(path, mods) ==
  IF is_root(path)
  THEN Stat(path, "", 0, S_IFDIR + Mode0555, 2, NoneValue, FALSE)
  ELSE IF is_dot_file(path)
  THEN Stat(path, "", 0, S_IFREG + Mode0555, 1,
            Len(get_content(path, mods)), TRUE)
  ELSE IF ResolverKind(path) = "unresolvable"
  THEN Stat(path, "CannotResolve", 0, 0, 0, NoneValue, TRUE)
  ELSE IF is_symlink(path)
  THEN Stat(path, "", 0, S_IFLNK + Mode0777, 1,
            Len(get_content(path, mods)), TRUE)
  ELSE IF is_dir(path)
  THEN Stat(path, "", 0, S_IFDIR + Mode0555, 3, NoneValue, TRUE)
  ELSE IF is_file(path)
  THEN Stat(path, "", 0, S_IFREG + get_file_mode(path), 1,
            Len(get_content(path, mods)), TRUE)
  ELSE Stat(path, "FuseOSError", ENOENT, 0, 0, NoneValue, TRUE)

\* getattr with the except clause left out
getattr_without_except(path, mods) == try_to_getattr(path, mods)

\* getattr: CannotResolve becomes FuseOSError(ENOENT)
getattr(path, mods) ==
  IF try_to_getattr(path, mods).exc = "CannotResolve"
  THEN [try_to_getattr(path, mods) EXCEPT !.exc = "FuseOSError", !.code = ENOENT]
  ELSE try_to_getattr(path, mods)

Query(op, exc, code) ==
  Call(op, "", 0, 0, NoneValue, <<>>, 0, exc, code, NoneValue)

Getattr ==
  \E path \in QueryPaths :
    /\ answer' = getattr(path, modules)
    /\ last' = Query("getattr", answer'.exc, answer'.code)
    /\ UNCHANGED <<next_fh, flags_for_open_files, modules, threads>>

\* readdir: no except clause, CannotResolve leaves the call as it is
readdir(path) ==
  IF ResolverKind(path) # "dir"
  THEN [op |-> "readdir", path |-> path, exc |-> "CannotResolve", code |-> 0,
        names |-> <<>>]
  ELSE [op |-> "readdir", path |-> path, exc |-> "", code |-> 0,
        names |-> <<".", "..">> \o get_elements(path)]

Readdir ==
  \E path \in QueryPaths :
    /\ answer' = readdir(path)
    /\ last' = Query("readdir", answer'.exc, answer'.code)
    /\ UNCHANGED <<next_fh, flags_for_open_files, modules, threads>>

\* readlink of a link of the built-ins area
readlink(link) ==
  [op |-> "readlink", link |-> link, exc |-> "", code |-> 0,
   target |-> symlinks[link]]

Readlink ==
  \E link \in DOMAIN symlinks :
    /\ answer' = readlink(link)
    /\ last' = Query("readlink", "", 0)
    /\ UNCHANGED <<next_fh, flags_for_open_files, modules, threads>>

\* a call that changes state, delivered while no other call is running
Serial(call) == call /\ answer' = NoAnswer /\ UNCHANGED threads

Next ==
  \/ Serial(Open)
  \/ Serial(Truncate)
  \/ Serial(Release)
  \/ Serial(Write)
  \/ Getattr
  \/ Readdir
  \/ Readlink

Spec == Init /\ [][Next]_vars

(* ------------------- calls from concurrent worker threads -------------- *)
(* fuse.FUSE is started with its default of several worker threads and the *)
(* adapter takes no lock: a call is a sequence of steps, each one access   *)
(* to the shared state, and the steps of different threads interleave.     *)

\* the worker threads that deliver calls
Threads == {"t1", "t2"}

ConcFlags == {O_WRONLY, O_WRONLY + O_APPEND, O_RDWR}

ConcData == {s_re}

Frame(pc, op, flags, fh, data, offset, exc, code, ret) ==
  [pc |-> pc, op |-> op, flags |-> flags, fh |-> fh, data |-> data,
   offset |-> offset, exc |-> exc, code |-> code, ret |-> ret]

Idle == Frame("idle", "none", 0, NoneValue, <<>>, 0, "", 0, NoneValue)

InitConc ==
  /\ next_fh = 0
  /\ flags_for_open_files = <<>>
  /\ modules = add_all(<<>>, BootstrapNames)
  /\ last = Call("init", "", 0, 0, NoneValue, <<>>, 0, "", 0, NoneValue)
  /\ answer = NoAnswer
  /\ threads = [t \in Threads |-> Idle]

\* the thread is between two calls
Free(t) == threads[t].pc \in {"idle", "done"}

\* the thread moves to frame f
Goto(t, f) == threads' = [threads EXCEPT ![t] = f]

\* the call of the thread ends
Return(t, exc, code, ret) ==
  Goto(t, [threads[t] EXCEPT !.pc = "done", !.exc = exc, !.code = code,
                             !.ret = ret])

\* itertools.count.next() that does not advance the counter
count_stuck(n) == n

\* itertools.count.next(): one step under the interpreter lock
count_next(n) == n + 1

\* open, lines 128-139: the policy gate on the control file
BeginOpen(t) ==
  /\ Free(t)
  /\ next_fh + Cardinality({u \in Threads : threads[u].pc = "alloc"}) < MaxOpens
  /\ \E flags \in ConcFlags :
       IF open_rejects_control(flags)
       THEN /\ Goto(t, Frame("done", "open", flags, NoneValue, <<>>, 0,
                             "FuseOSError", EPERM, NoneValue))
            /\ UNCHANGED <<next_fh, flags_for_open_files, modules>>
       ELSE /\ Goto(t, Frame("alloc", "open", flags, NoneValue, <<>>, 0,
                             "", 0, NoneValue))
            /\ modules' = IF open_resets(flags)
                          THEN reset_modules_list ELSE modules
            /\ UNCHANGED <<next_fh, flags_for_open_files>>
  /\ UNCHANGED <<last, answer>>

\* open, line 141: fh = self._next_fh.next()
OpenAlloc(t) ==
  /\ threads[t].pc = "alloc"
  /\ Goto(t, [threads[t] EXCEPT !.pc = "store", !.fh = next_fh])
  /\ next_fh' = count_next(next_fh)
  /\ UNCHANGED <<flags_for_open_files, modules, last, answer>>

\* open, lines 142-143: self._flags_for_open_files[fh] = flags; return fh
OpenStore(t) ==
  /\ threads[t].pc = "store"
  /\ flags_for_open_files' =
       [h \in DOMAIN flags_for_open_files \cup {threads[t].fh} |->
          IF h = threads[t].fh THEN threads[t].flags
          ELSE flags_for_open_files[h]]
  /\ Return(t, "", 0, threads[t].fh)
  /\ UNCHANGED <<next_fh, modules, last, answer>>

\* release, lines 154-156: the handle check
BeginRelease(t) ==
  /\ Free(t)
  /\ \E fh \in Handles :
       IF release_bad_handle(flags_for_open_files, fh)
       THEN Goto(t, Frame("done", "release", 0, fh, <<>>, 0,
                          "FuseOSError", EBADFD, NoneValue))
       ELSE Goto(t, Frame("del", "release", 0, fh, <<>>, 0,
                          "", 0, NoneValue))
  /\ UNCHANGED <<next_fh, flags_for_open_files, modules, last, answer>>

\* release, lines 157-158: del of a key that is gone raises KeyError
ReleaseDel(t) ==
  /\ threads[t].pc = "del"
  /\ IF threads[t].fh \notin DOMAIN flags_for_open_files
     THEN /\ Return(t, "KeyError", 0, NoneValue)
          /\ UNCHANGED flags_for_open_files
     ELSE /\ flags_for_open_files' =
               release_del(flags_for_open_files, threads[t].fh)
          /\ Return(t, "", 0, threads[t].fh)
  /\ UNCHANGED <<next_fh, modules, last, answer>>

\* write, lines 161-163: the handle check
BeginWrite(t) ==
  /\ Free(t)
  /\ \E fh \in Handles, data \in ConcData, offset \in Offsets :
       IF write_bad_handle(flags_for_open_files, fh)
       THEN Goto(t, Frame("done", "write", 0, fh, data, offset,
                          "FuseOSError", EBADFD, NoneValue))
       ELSE Goto(t, Frame("flags", "write", 0, fh, data, offset,
                          "", 0, NoneValue))
  /\ UNCHANGED <<next_fh, flags_for_open_files, modules, last, answer>>

\* write, lines 164-166: the lookup of a key that is gone raises KeyError
WriteFlags(t) ==
  /\ threads[t].pc = "flags"
  /\ IF threads[t].fh \notin DOMAIN flags_for_open_files
     THEN Return(t, "KeyError", 0, NoneValue)
     ELSE IF write_rejects_offset(flags_for_open_files[threads[t].fh],
                                  threads[t].offset)
     THEN Return(t, "FuseOSError", -EPERM, NoneValue)
     ELSE Goto(t, [threads[t] EXCEPT !.pc = "add"])
  /\ UNCHANGED <<next_fh, flags_for_open_files, modules, last, answer>>

\* write, lines 167-169
WriteAdd(t) ==
  /\ threads[t].pc = "add"
  /\ modules' = IF write_name(threads[t].data) # <<>>
                THEN add_module(modules, write_name(threads[t].data))
                ELSE modules
  /\ Return(t, "", 0, write_ret(threads[t].data))
  /\ UNCHANGED <<next_fh, flags_for_open_files, last, answer>>

NextConc ==
  \E t \in Threads :
    \/ BeginOpen(t)
    \/ OpenAlloc(t)
    \/ OpenStore(t)
    \/ BeginRelease(t)
    \/ ReleaseDel(t)
    \/ BeginWrite(t)
    \/ WriteFlags(t)
    \/ WriteAdd(t)

SpecConc == InitConc /\ [][NextConc]_vars

TypeOK ==
  /\ next_fh \in 0..MaxOpens
  /\ DOMAIN flags_for_open_files \subseteq 0..(next_fh - 1)
  /\ \A h \in DOMAIN flags_for_open_files : flags_for_open_files[h] \in FlagValues

(* ------------------------------ outcomes ------------------------------- *)

Ok(c) == c.exc = ""

BadHandle(c) == c.exc = "FuseOSError" /\ c.code = EBADFD

PermissionDenied(c) == c.exc = "FuseOSError" /\ c.code = EPERM

IsReset(c) ==
  \/ c.op = "truncate" /\ Ok(c)
  \/ c.op = "open" /\ Ok(c) /\ c.path = PATH_MODULES /\ HasFlag(c.flags, O_TRUNC)

NoDuplicates(s) == \A i, j \in 1..Len(s) : s[i] = s[j] => i = j

\* number of whitespace characters data starts with and ends with
LeadingWhitespace(data) ==
  Cardinality({i \in 1..Len(data) : \A k \in 1..i : data[k] \in Whitespace})

TrailingWhitespace(data) ==
  Cardinality({i \in 1..Len(data) : \A k \in i..Len(data) : data[k] \in Whitespace})

\* data with the whitespace at both ends removed, said without strip
Trimmed(data) ==
  IF LeadingWhitespace(data) = Len(data) THEN <<>>
  ELSE SubSeq(data, LeadingWhitespace(data) + 1,
              Len(data) - TrailingWhitespace(data))

(* ------------------------------- claims -------------------------------- *)

\* C1: release and write called with a handle id that is not in the
\* open-file table fail with BadHandle (EBADFD) and leave the open-file
\* table and the module registry unchanged.
C1_UnknownHandleIsBadHandle ==
  [][(last'.op \in {"release", "write"}
        /\ last'.fh \notin DOMAIN flags_for_open_files)
     => /\ BadHandle(last')
        /\ flags_for_open_files' = flags_for_open_files
        /\ modules' = modules]_vars

\* a write on a handle that was issued and has been released was refused
C1_Witness ==
  /\ last.op = "write"
  /\ last.fh < next_fh
  /\ last.fh \notin DOMAIN flags_for_open_files
  /\ BadHandle(last)

\* C2: a handle returned by open is in the table with the flags of that
\* open until its first successful release, and no write or release on it
\* fails with BadHandle meanwhile; once released it stays absent and a
\* second release fails with BadHandle.
C2_HandleLifecycle ==
  [][/\ (last'.op = "open" /\ Ok(last'))
          => /\ last'.ret \notin DOMAIN flags_for_open_files
             /\ last'.ret \in DOMAIN flags_for_open_files'
             /\ flags_for_open_files'[last'.ret] = last'.flags
     /\ \A h \in DOMAIN flags_for_open_files :
          /\ (last'.op \in {"write", "release"} /\ last'.fh = h)
               => ~BadHandle(last')
          /\ IF last'.op = "release" /\ last'.fh = h /\ Ok(last')
             THEN h \notin DOMAIN flags_for_open_files'
             ELSE /\ h \in DOMAIN flags_for_open_files'
                  /\ flags_for_open_files'[h] = flags_for_open_files[h]
     /\ \A h \in (0..(next_fh - 1)) \ DOMAIN flags_for_open_files :
          /\ h \notin DOMAIN flags_for_open_files'
          /\ (last'.op = "release" /\ last'.fh = h) => BadHandle(last')]_vars

\* handle 0 was released, its second release was refused, handle 1 is open
C2_Witness ==
  /\ next_fh = 2
  /\ DOMAIN flags_for_open_files = {1}
  /\ last.op = "release"
  /\ last.fh = 0
  /\ BadHandle(last)

\* C3: open with write intent (O_WRONLY or O_RDWR) on a path other than the
\* control file fails with EPERM, allocates no handle id, adds no table
\* entry and does not change the module registry.
C3_WriteIntentOpenRejected ==
  [][(/\ last'.op = "open"
      /\ last'.path # PATH_MODULES
      /\ (HasFlag(last'.flags, O_WRONLY) \/ HasFlag(last'.flags, O_RDWR)))
     => /\ PermissionDenied(last')
        /\ next_fh' = next_fh
        /\ flags_for_open_files' = flags_for_open_files
        /\ modules' = modules]_vars

\* a read-write open of an ordinary path was refused
C3_Witness ==
  /\ last.op = "open"
  /\ last.path # PATH_MODULES
  /\ HasFlag(last.flags, O_RDWR)
  /\ PermissionDenied(last)

\* C4: open of the control file with O_RDWR fails with EPERM and has no
\* effect: also with O_TRUNC the registry is not cleared, no handle id is
\* consumed and the open-file table is unchanged.
C4_ControlReadWriteRejected ==
  [][(/\ last'.op = "open"
      /\ last'.path = PATH_MODULES
      /\ HasFlag(last'.flags, O_RDWR))
     => /\ PermissionDenied(last')
        /\ next_fh' = next_fh
        /\ flags_for_open_files' = flags_for_open_files
        /\ modules' = modules]_vars

\* a read-write, truncating open of the control file was refused while the
\* registry holds names
C4_Witness ==
  /\ last.op = "open"
  /\ last.path = PATH_MODULES
  /\ last.flags = O_RDWR + O_TRUNC
  /\ PermissionDenied(last)
  /\ modules # <<>>

\* C5: right after a successful truncate(control file, 0), or a successful
\* open of the control file with O_TRUNC, the module registry is empty and
\* the control file's content is the empty string.
C5_ResetEmptiesRegistry ==
  IsReset(last) => (modules = <<>> /\ get_content_modules(modules) = <<>>)

\* the control file was reset by a truncating open while another handle
\* is open
C5_Witness ==
  /\ last.op = "open"
  /\ IsReset(last)
  /\ Cardinality(DOMAIN flags_for_open_files) = 2
  /\ modules = <<>>

\* C6: truncate succeeds only for the control file with length 0; another
\* path fails with EPERM whatever the length, the control file with a
\* non-zero length fails with an I/O-level error, and a failed truncate
\* leaves the registry and the open-file table unchanged.
C6_TruncatePolicy ==
  [][last'.op = "truncate"
     => /\ Ok(last') <=> (last'.path = PATH_MODULES /\ last'.length = 0)
        /\ last'.path # PATH_MODULES => PermissionDenied(last')
        /\ (last'.path = PATH_MODULES /\ last'.length # 0)
             => last'.exc = "IOError"
        /\ ~Ok(last') => /\ modules' = modules
                         /\ flags_for_open_files' = flags_for_open_files]_vars

\* a non-zero truncate of the control file failed at the I/O level with
\* names registered and a handle open
C6_Witness ==
  /\ last.op = "truncate"
  /\ last.path = PATH_MODULES
  /\ last.length # 0
  /\ last.exc = "IOError"
  /\ modules # <<>>
  /\ DOMAIN flags_for_open_files # {}

\* C7: a write through an open handle without O_APPEND at a non-zero offset
\* fails with PermissionDenied reported as EPERM, registers nothing and
\* leaves the handle open; a write at offset 0, or through an O_APPEND
\* handle, is not rejected.
C7_InPlaceWriteIsEPERM ==
  [][(last'.op = "write" /\ last'.fh \in DOMAIN flags_for_open_files)
     => IF /\ ~HasFlag(flags_for_open_files[last'.fh], O_APPEND)
           /\ last'.offset # 0
        THEN /\ PermissionDenied(last')
             /\ modules' = modules
             /\ flags_for_open_files' = flags_for_open_files
        ELSE Ok(last')]_vars

\* C8: a successful write returns the full length of data; it registers
\* exactly the trimmed data as one name when that is non-empty, registers
\* nothing when data is empty or whitespace only, and leaves the open-file
\* table unchanged.
C8_WriteRegistersTrimmedName ==
  [][(last'.op = "write" /\ Ok(last'))
     => /\ last'.ret = Len(last'.data)
        /\ flags_for_open_files' = flags_for_open_files
        /\ LET n == Trimmed(last'.data)
           IN IF n # <<>>
              THEN /\ Count(n, modules') = 1
                   /\ modules' \in {modules, Append(modules, n)}
              ELSE modules' = modules]_vars

\* " re\n" was written to the emptied registry and "re" is what it holds
C8_Witness ==
  /\ last.op = "write"
  /\ Ok(last)
  /\ last.data = <<" ", "r", "e", "\n">>
  /\ last.ret = 4
  /\ modules = <<s_re>>

\* C9: the registry never holds a name twice, and every registered name
\* appears exactly once among the newline-separated entries of the control
\* file's content; after a successful write of "re" the content has the
\* line "re".
C9_EachNameOneEntry ==
  /\ NoDuplicates(modules)
  /\ \A n \in Range(modules) :
       Count(n, split(get_content_modules(modules))) = 1
  /\ (last.op = "write" /\ Ok(last) /\ last.data = s_re)
       => s_re \in Range(split(get_content_modules(modules)))

\* C10: the registry changes only through a write to the control file or a
\* reset of the control file; a write whose path is not the control file
\* never changes it.
C10_OnlyControlFileWrites ==
  [][modules' # modules
     => \/ last'.op = "write" /\ last'.path = PATH_MODULES /\ Ok(last')
        \/ IsReset(last')]_vars

RootPaths == {"/", "/.", "/.."}

\* the bits 0200, 0020 and 0002 of a mode
HasWriteBit(mode) == HasFlag(mode, 128) \/ HasFlag(mode, 16) \/ HasFlag(mode, 2)

\* the file type bits and the permission bits of a mode
FileType(mode) == mode - (mode % 4096)
Permissions(mode) == mode % 512

NotFound(a) == a.exc = "FuseOSError" /\ a.code = ENOENT

\* C11: getattr on "/", "/." and "/.." returns a directory with mode 0555
\* and no write bit in every reachable state, without consulting the
\* resolver, so it never fails.
C11_RootIsAlwaysDirectory ==
  (answer.op = "getattr" /\ answer.path \in RootPaths)
    => /\ answer.exc = ""
       /\ FileType(answer.st_mode) = S_IFDIR
       /\ Permissions(answer.st_mode) = Mode0555
       /\ ~HasWriteBit(answer.st_mode)
       /\ ~answer.consulted

\* "/." was reported as a directory with the registry reset and a handle open
C11_Witness ==
  /\ answer.op = "getattr"
  /\ answer.path = "/."
  /\ answer.st_mode = S_IFDIR + Mode0555
  /\ modules = <<>>
  /\ DOMAIN flags_for_open_files # {}

\* C12: getattr on a path the resolver cannot resolve fails with ENOENT,
\* both when a resolver query raises CannotResolve and when the path is
\* neither symlink nor directory nor file; CannotResolve never leaves
\* getattr.
C12_UnresolvableIsNotFound ==
  answer.op = "getattr"
    => /\ answer.exc # "CannotResolve"
       /\ (/\ answer.path \notin RootPaths
           /\ ResolverKind(answer.path) \in {"unresolvable", "none"})
            => NotFound(answer)

\* getattr of a path whose resolver query raises was answered with ENOENT
C12_Witness ==
  /\ answer.op = "getattr"
  /\ answer.path = "/lib/nope"
  /\ ResolverKind(answer.path) = "unresolvable"
  /\ NotFound(answer)

\* C13: readdir returns ".", ".." and then the resolver's children, in the
\* resolver's order, for a directory; for anything else, also when the
\* resolver raises CannotResolve, it fails with NotFound as getattr does.
C13_ReaddirNotFound ==
  answer.op = "readdir"
    => IF ResolverKind(answer.path) = "dir"
       THEN /\ answer.exc = ""
            /\ answer.names = <<".", "..">> \o get_elements(answer.path)
       ELSE NotFound(answer)

RECURSIVE SegmentsFrom(_, _, _)
SegmentsFrom(s, i, cur) ==
  IF i > Len(s) THEN <<cur>>
  ELSE IF s[i] = "/" THEN <<cur>> \o SegmentsFrom(s, i + 1, <<>>)
  ELSE SegmentsFrom(s, i + 1, Append(cur, s[i]))

Segments(s) == SegmentsFrom(s, 1, <<>>)

\* follow segments from a directory given as a stack of names; above
\* records a ".." taken at the root
RECURSIVE Walk(_, _, _)
Walk(stack, segs, above) ==
  IF segs = <<>> THEN [stack |-> stack, above |-> above]
  ELSE IF Head(segs) = <<>> \/ Head(segs) = <<".">>
  THEN Walk(stack, Tail(segs), above)
  ELSE IF Head(segs) = <<".", ".">>
  THEN IF stack = <<>> THEN Walk(stack, Tail(segs), TRUE)
       ELSE Walk(SubSeq(stack, 1, Len(stack) - 1), Tail(segs), above)
  ELSE Walk(Append(stack, Head(segs)), Tail(segs), above)

\* the directory holding a link, as a stack of names
DirOf(link) ==
  LET segs == Walk(<<>>, Segments(link), FALSE).stack
  IN SubSeq(segs, 1, Len(segs) - 1)

StartsWith(s, prefix) ==
  Len(s) >= Len(prefix) /\ SubSeq(s, 1, Len(prefix)) = prefix

\* C15: the symlink registered for the built-in b has a relative target
\* that, followed from the directory of the link, reaches exactly
\* /lib/__builtin__/b without climbing above the root, and is never a
\* built-ins-prefixed path.
C15_BuiltinLinksIntoLibrary ==
  answer.op = "readlink"
    => LET b == SubSeq(answer.link, Len(PATH_BIN_PREFIX) + 1, Len(answer.link))
           to == Walk(DirOf(answer.link), Segments(answer.target), FALSE)
       IN /\ answer.exc = ""
          /\ answer.target # <<>>
          /\ Head(answer.target) # "/"
          /\ ~StartsWith(answer.target, PATH_BIN_PREFIX)
          /\ ~to.above
          /\ to.stack = <<<<"l", "i", "b">>, s_builtin, b>>

\* the link of __import__ was read
C15_Witness ==
  /\ answer.op = "readlink"
  /\ answer.link = PATH_BIN_PREFIX \o s_import
  /\ StartsWith(answer.target, <<".", ".", "/", "l", "i", "b", "/">>)

\* C17: handle ids are issued as 0, 1, 2, ... without gaps and never
\* reused: a successful open returns the counter's value, above every id
\* in the table, and advances it; a rejected open and every other call
\* leave the counter alone; the table grows by one on a successful open
\* and shrinks by one on a successful release.
C17_HandleIdsMonotonic ==
  /\ next_fh = 0
  /\ [][/\ (last'.op = "open" /\ Ok(last'))
             => /\ last'.ret = next_fh
                /\ next_fh' = next_fh + 1
                /\ \A h \in DOMAIN flags_for_open_files : h < last'.ret
                /\ Cardinality(DOMAIN flags_for_open_files')
                     = Cardinality(DOMAIN flags_for_open_files) + 1
        /\ ~(last'.op = "open" /\ Ok(last')) => next_fh' = next_fh
        /\ (last'.op = "open" /\ ~Ok(last'))
             => flags_for_open_files' = flags_for_open_files
        /\ (last'.op = "release" /\ Ok(last'))
             => Cardinality(DOMAIN flags_for_open_files')
                  = Cardinality(DOMAIN flags_for_open_files) - 1
        /\ (last'.op \notin {"open", "release"})
             => flags_for_open_files' = flags_for_open_files]_vars

\* after handle 0 was released the next open returned 1
C17_Witness ==
  /\ last.op = "open"
  /\ Ok(last)
  /\ last.ret = 1
  /\ DOMAIN flags_for_open_files = {1}

\* C19: a successful release removes exactly its entry and leaves the other
\* entries and the registry unchanged; a successful reset (truncate, or
\* open with the truncate flag) leaves every existing entry unchanged.
C19_FrameConditions ==
  [][/\ (last'.op = "release" /\ Ok(last'))
          => /\ DOMAIN flags_for_open_files'
                  = DOMAIN flags_for_open_files \ {last'.fh}
             /\ \A h \in DOMAIN flags_for_open_files' :
                  flags_for_open_files'[h] = flags_for_open_files[h]
             /\ modules' = modules
     /\ IsReset(last')
          => \A h \in DOMAIN flags_for_open_files :
               /\ h \in DOMAIN flags_for_open_files'
               /\ flags_for_open_files'[h] = flags_for_open_files[h]]_vars

\* handle 0 was released while handle 1 is open and a name loaded after a
\* reset is still registered
C19_Witness ==
  /\ last.op = "release"
  /\ Ok(last)
  /\ last.fh = 0
  /\ DOMAIN flags_for_open_files = {1}
  /\ modules = <<s_re>>

\* the newline-separated entries of a content; none for the empty content
Entries(content) == IF content = <<>> THEN <<>> ELSE split(content)

\* C20: the control file's content has as many newline-separated entries
\* as the registry has names, and every entry is a registered name: one
\* write contributes at most one entry.
C20_OneEntryPerName ==
  /\ Len(Entries(get_content_modules(modules))) = Len(modules)
  /\ Range(Entries(get_content_modules(modules))) \subseteq Range(modules)

\* C16: with calls delivered by concurrent worker threads every call ends
\* in success or in one of the documented errors: of two releases of the
\* same open handle one succeeds and the other fails with BadHandle, and a
\* write racing with the release of its handle completes or fails with
\* BadHandle, never with another failure.
C16_ConcurrentCallsEndAsDocumented ==
  \A t \in DOMAIN threads :
    /\ threads[t].exc \in {"", "FuseOSError"}
    /\ (threads[t].op = "release" /\ threads[t].pc = "done")
         => (threads[t].exc = "" \/ BadHandle(threads[t]))
    /\ (threads[t].op = "write" /\ threads[t].pc = "done"
          /\ threads[t].offset = 0)
         => (threads[t].exc = "" \/ BadHandle(threads[t]))

\* C18: two opens that run concurrently and both succeed get different
\* handle ids, and the store of each adds its own id with its own flags
\* to the table without touching any other entry.
C18_ConcurrentOpensDistinct ==
  /\ [](\A t, u \in DOMAIN threads :
          (/\ t # u
           /\ threads[t].op = "open" /\ threads[t].pc \in {"store", "done"}
           /\ threads[u].op = "open" /\ threads[u].pc \in {"store", "done"}
           /\ threads[t].exc = "" /\ threads[u].exc = "")
            => threads[t].fh # threads[u].fh)
  /\ [][\A t \in DOMAIN threads :
          (threads[t].pc = "store" /\ threads'[t].pc = "done")
            => /\ threads'[t].ret = threads[t].fh
               /\ threads[t].fh \notin DOMAIN flags_for_open_files
               /\ DOMAIN flags_for_open_files'
                    = DOMAIN flags_for_open_files \cup {threads[t].fh}
               /\ flags_for_open_files'[threads[t].fh] = threads[t].flags
               /\ \A h \in DOMAIN flags_for_open_files :
                    flags_for_open_files'[h] = flags_for_open_files[h]]_vars

\* both threads returned from opens that overlapped: the table holds both
\* ids, each with the flags of its own open
C18_Witness ==
  /\ DOMAIN threads = Threads
  /\ \A t \in Threads :
       threads[t].op = "open" /\ threads[t].pc = "done" /\ threads[t].exc = ""
  /\ threads["t1"].ret = 1
  /\ threads["t2"].ret = 0
  /\ threads["t1"].flags = O_WRONLY
  /\ threads["t2"].flags = O_WRONLY + O_APPEND
  /\ flags_for_open_files = [h \in {0, 1} |->
                               IF h = 1 THEN O_WRONLY ELSE O_WRONLY + O_APPEND]

====
